---- MODULE Spec2Model ----
(***************************************************************************)
(* Verification model of DASHBOARD.py: the HTTP fetcher (make_request),    *)
(* the two offset paginators (fetch_vpn_user_connections,                  *)
(* fetch_all_private_resources) and the incremental ZTNA ingester          *)
(* (fetch_and_process_ztna_data with its snapshot directory).              *)
(*                                                                         *)
(* Each component has its own variables and its own specification; the     *)
(* variables of the other components stay at their initial value.          *)
(***************************************************************************)
EXTENDS Integers, Sequences, FiniteSets

VARIABLES
    \* ---- make_request (lines 57-70) ----
    mr_pc,          \* "idle" | "attempt" | "returned" | "raised"
    max_retries,    \* argument max_retries of the running call
    delay_arg,      \* argument delay of the running call
    attempt,        \* loop variable of `for attempt in range(max_retries)`
    delay,          \* local delay, doubled after each wait
    gets,           \* number of requests.get calls issued by the running call
    waits,          \* durations passed to time.sleep, in order
    errors,         \* request exceptions caught so far, in order
    mr_result,      \* value returned or exception raised by the call
    \* ---- fetch_vpn_user_connections (lines 73-99) ----
    vpn_pc,         \* "idle" | "request" | "returned" | "raised"
    vpn_offset,     \* local offset
    vpn_user_connections,   \* local list, as the sequence of pages extended
    vpn_total,      \* local total (of the last response)
    vpn_requests,   \* offsets of the make_request calls of the walk, in order
    vpn_pages,      \* sizes of the pages received by the walk, in order
    \* ---- fetch_all_private_resources (lines 102-129) ----
    res_pc,         \* "idle" | "request" | "returned" | "raised"
    res_offset,     \* local offset
    private_resources,      \* local list of names, as index ranges of the catalogue
    total_resources,        \* local total_resources (of the last response)
    res_catalog,    \* number of resources the server holds during the walk
    res_total_field,        \* the responses of the server carry 'total'
    res_requests,   \* offsets of the make_request calls of the walk, in order
    res_result,     \* the set returned by the walk
    \* ---- environment of the ZTNA ingester ----
    clock,          \* datetime.now(mexico_city_tz), in ms since 00:00 of day 0
    server,         \* the server's activity log: runs [ts, n] of n entries
                    \* with timestamp ts, in increasing order of ts
    srv_from_incl,  \* the server counts an entry with timestamp = from in
    srv_to_incl,    \* the window / an entry with timestamp = to in the window
    files,          \* the directory ztna_data: hour bucket |-> list saved
    \* ---- fetch_and_process_ztna_data (lines 172-235) ----
    z_pc,           \* "idle" | "clear" | "load" | "page" | "save" | "done" | "raised"
    now,            \* local now (line 173)
    existing_ztna_data,     \* local list (line 180)
    from_timestamp,
    to_timestamp,
    time_chunk_size,
    chunk_end_time,
    offset,
    new_ztna_data,
    z_requests,     \* the make_request calls of the cycle, in order: their
                    \* params and the number of entries got (-1: HTTPError)
    ztna_data,      \* line 489: the list the last cycle that returned handed
                    \* to the dashboard
    \* ---- history of the cycles ----
    ztna_day,       \* the day of now of the cycle that returned ztna_data
    ztna_from,      \* the from_timestamp that cycle started from
    undisturbed,    \* neither the clock nor the server's log has changed
                    \* since the last cycle began
    second_run,     \* the last cycle began when the cycle before it had
                    \* returned, with the clock and the log as that cycle
                    \* had found them
    failures,       \* number of calls (of make_request, open, os.remove)
                    \* that raised so far
    \* ---- the reconciliation of the main script (lines 290-465) ----
    rec_pc,         \* "idle" | "chunk" | "map" | "unenrolled" | "vpn" |
                    \* "done" | "raised"
    identities,     \* line 290: the list fetch_identities returned
    rec_i,          \* loop variable i of line 305
    user_summaries, \* line 311: the summaries of the last response
    user_details,   \* rows appended in lines 324-329
    users_not_enrolled,     \* identities appended in line 318
    df,             \* the frame of lines 342-350: rows of Usuario, Correo
    identifier_to_user_map, \* line 359
    df_no_enrollment,       \* lines 400-407
    vpn_data,       \* rows appended in lines 456-464
    rec_error,      \* the exception that ended the script, or "none"
    \* ---- st.cache_data(ttl=3600) around make_request (line 57) ----
    c_pc,           \* "idle" | "running" | "served" (from the cache) |
                    \* "returned" | "raised"
    c_key,          \* the arguments of the last call of the cached function
    c_time,         \* the timer of the cache, in seconds
    cache,          \* the entries: arguments |-> [at, value]
    c_result,       \* what the last call handed to its caller
    c_calls         \* number of calls of the cached function so far

fetchVars == <<mr_pc, max_retries, delay_arg, attempt, delay, gets, waits,
               errors, mr_result>>

vpnVars == <<vpn_pc, vpn_offset, vpn_user_connections, vpn_total,
             vpn_requests, vpn_pages>>

resVars == <<res_pc, res_offset, private_resources, total_resources,
             res_catalog, res_total_field, res_requests, res_result>>

envVars == <<clock, server, srv_from_incl, srv_to_incl>>

ztnaVars == <<files, z_pc, now, existing_ztna_data, from_timestamp,
              to_timestamp, time_chunk_size, chunk_end_time, offset,
              new_ztna_data, z_requests, ztna_data>>

histVars == <<ztna_day, ztna_from, undisturbed, second_run, failures>>

recVars == <<rec_pc, identities, rec_i, user_summaries, user_details, users_not_enrolled, df,
             identifier_to_user_map, df_no_enrollment, vpn_data, rec_error>>

cacheVars == <<c_pc, c_key, c_time, cache, c_result, c_calls>>

vars == <<fetchVars, vpnVars, resVars, envVars, ztnaVars, histVars, recVars,
          cacheVars>>

(***************************************************************************)
(* Bounds of the model.                                                    *)
(***************************************************************************)
MaxRetriesArg == 6          \* max_retries is drawn from 0..MaxRetriesArg
MaxDelayArg == 2            \* delay is drawn from 1..MaxDelayArg
MaxVpnRequests == 4         \* a VPN walk is followed for at most this many requests
MaxResTotal == 350          \* the catalogue holds 0..MaxResTotal resources
MaxMs == 3                  \* the clock advances MaxMs times by one ms,
MaxHours == 1               \* then MaxHours times by an hour,
MaxDays == 1                \* then MaxDays times by a day
MaxRuns == 2                \* the server logs at most MaxRuns bursts of entries
MaxCycleRequests == 12      \* a cycle is followed for at most this many requests
MaxFailures == 1            \* at most MaxFailures calls raise
MaxIdentities == 101        \* the directory holds at most MaxIdentities identities
MaxSummaries == 3           \* a userSummaries response holds at most this many
MaxConnections == 2         \* the VPN walk returned at most this many connections
MaxCacheRetries == 2        \* cached calls draw max_retries from 0..MaxCacheRetries
MaxCacheCalls == 3          \* the cached function is called at most this often
CacheTick == 1500           \* the timer of the cache advances by this many seconds,
MaxCacheTicks == 3          \* at most MaxCacheTicks times

(***************************************************************************)
(* Program constants.                                                      *)
(***************************************************************************)
DefaultMaxRetries == 5      \* make_request(..., max_retries=5, ...)
DefaultDelay == 1           \* make_request(..., delay=1)
vpn_chunk_size == 500       \* fetch_vpn_user_connections(..., chunk_size=500)
res_chunk_size == 100       \* chunk_size = 100 in fetch_all_private_resources
max_offset == 15000         \* max_offset = 15000 in fetch_and_process_ztna_data
chunk_size == 5000          \* chunk_size = 5000 in fetch_and_process_ztna_data
FiveAmHour == 5             \* now.replace(hour=5, minute=0, second=0, microsecond=0)
MsPerHour == 3600000        \* an hour of strftime('%Y%m%d_%H'), in ms
HoursPerDay == 24           \* a day of strftime('%Y%m%d'), in hours
rec_chunk_size == 100       \* chunk_size = 100 of the main script (line 301)
ttl == 3600                 \* @st.cache_data(ttl=3600)
DefaultTimeout == 60        \* make_request(..., timeout=60, ...)

\* The request exceptions requests.get / raise_for_status can raise.
RequestExceptions == {"ConnectionError", "Timeout", "HTTPError"}

NoResult == [kind |-> "none"]

RECURSIVE Pow2(_)
Pow2(n) == IF n = 0 THEN 1 ELSE 2 * Pow2(n - 1)

(***************************************************************************)
(* make_request                                                            *)
(***************************************************************************)

\* delay *= 2 written as an addition.
BackoffLinear(d) == d + 1

\* line 68: delay *= 2
Backoff(d) == d * 2

\* line 66: a wait and another attempt follow unless this was the last one.
IsLastAttempt(a, mr) == ~(a < mr - 1)

FetchInit ==
    /\ mr_pc = "idle"
    /\ max_retries = DefaultMaxRetries
    /\ delay_arg = DefaultDelay
    /\ attempt = 0
    /\ delay = DefaultDelay
    /\ gets = 0
    /\ waits = <<>>
    /\ errors = <<>>
    /\ mr_result = NoResult

\* A call make_request(url, headers, params, max_retries=mr, delay=d).
\* range(0) is empty: with max_retries = 0 the body of the loop never runs
\* and the function falls off its end, returning None.
MrCall(mr, d) ==
    /\ mr_pc \in {"idle", "returned", "raised"}
    /\ max_retries' = mr
    /\ delay_arg' = d
    /\ attempt' = 0
    /\ delay' = d
    /\ gets' = 0
    /\ waits' = <<>>
    /\ errors' = <<>>
    /\ IF mr > 0
         THEN mr_pc' = "attempt" /\ mr_result' = NoResult
         ELSE mr_pc' = "returned" /\ mr_result' = [kind |-> "None"]

\* lines 61-63: the GET succeeds and raise_for_status passes.
MrAttemptOk ==
    /\ mr_pc = "attempt"
    /\ gets' = gets + 1
    /\ mr_result' = [kind |-> "response", get |-> gets + 1]
    /\ mr_pc' = "returned"
    /\ UNCHANGED <<max_retries, delay_arg, attempt, delay, waits, errors>>

\* lines 64-70: the GET (or raise_for_status) raises request exception e.
MrAttemptFail(e) ==
    /\ mr_pc = "attempt"
    /\ gets' = gets + 1
    /\ errors' = Append(errors, [kind |-> e, get |-> gets + 1])
    /\ IF ~IsLastAttempt(attempt, max_retries)
         THEN /\ waits' = Append(waits, delay)
              /\ delay' = Backoff(delay)
              /\ attempt' = attempt + 1
              /\ mr_pc' = "attempt"
              /\ UNCHANGED mr_result
         ELSE /\ mr_result' = [kind |-> e, get |-> gets + 1]
              /\ mr_pc' = "raised"
              /\ UNCHANGED <<waits, delay, attempt>>
    /\ UNCHANGED <<max_retries, delay_arg>>

FetchNext ==
    \/ \E mr \in 0..MaxRetriesArg, d \in 1..MaxDelayArg : MrCall(mr, d)
    \/ MrAttemptOk
    \/ \E e \in RequestExceptions : MrAttemptFail(e)

(***************************************************************************)
(* fetch_vpn_user_connections                                              *)
(*                                                                         *)
(* A request of the walk is one call of make_request with the default      *)
(* retry arguments; its outcome is the one make_request has under          *)
(* SpecFetch: a response, or the request exception of the last attempt.    *)
(* The server is free to answer each request with a page of any size up to *)
(* the limit and with any total of VpnTotals.                              *)
(***************************************************************************)
VpnTotals == {0, 1230}

RECURSIVE SumSizes(_)
SumSizes(pages) ==
    IF pages = <<>> THEN 0 ELSE Head(pages).n + SumSizes(Tail(pages))

VpnInit ==
    /\ vpn_pc = "idle"
    /\ vpn_offset = 0
    /\ vpn_user_connections = <<>>
    /\ vpn_total = 0
    /\ vpn_requests = <<>>
    /\ vpn_pages = <<>>

\* lines 75-77
VpnCall ==
    /\ vpn_pc \in {"idle", "returned", "raised"}
    /\ vpn_pc' = "request"
    /\ vpn_offset' = 0
    /\ vpn_user_connections' = <<>>
    /\ vpn_total' = 0
    /\ vpn_requests' = <<>>
    /\ vpn_pages' = <<>>

\* line 94 with the comparison turned around.
VpnShortPageInverted(n) == n > vpn_chunk_size

\* line 94: if len(data) < chunk_size
VpnShortPage(n) == n < vpn_chunk_size

\* lines 80-97: one iteration of the loop; the response holds n items.
VpnPage(n, t) ==
    /\ vpn_pc = "request"
    /\ Len(vpn_requests) < MaxVpnRequests
    /\ vpn_requests' = Append(vpn_requests, vpn_offset)
    /\ vpn_pages' = Append(vpn_pages, n)
    /\ vpn_total' = t
    /\ IF n > 0
         THEN /\ vpn_user_connections' =
                    Append(vpn_user_connections, [offset |-> vpn_offset, n |-> n])
              /\ IF VpnShortPage(n)
                   THEN vpn_pc' = "returned" /\ UNCHANGED vpn_offset
                   ELSE vpn_pc' = "request"
                        /\ vpn_offset' = vpn_offset + vpn_chunk_size
         ELSE /\ vpn_pc' = "returned"
              /\ UNCHANGED <<vpn_user_connections, vpn_offset>>

\* line 85: make_request raises after its last attempt; nothing catches it.
VpnRaise ==
    /\ vpn_pc = "request"
    /\ Len(vpn_requests) < MaxVpnRequests
    /\ vpn_requests' = Append(vpn_requests, vpn_offset)
    /\ vpn_pc' = "raised"
    /\ UNCHANGED <<vpn_offset, vpn_user_connections, vpn_total, vpn_pages>>

VpnNext ==
    \/ VpnCall
    \/ \E n \in 0..vpn_chunk_size, t \in VpnTotals : VpnPage(n, t)
    \/ VpnRaise

(***************************************************************************)
(* fetch_all_private_resources                                             *)
(*                                                                         *)
(* The server holds res_catalog resources, numbered from 0, during a walk, *)
(* honours limit and offset, and reports total = res_catalog.              *)
(***************************************************************************)
ResIdle ==
    /\ res_pc = "idle"
    /\ res_offset = 0
    /\ private_resources = <<>>
    /\ total_resources = 0
    /\ res_catalog = 0
    /\ res_requests = <<>>
    /\ res_result = {}

\* The server answers {items, total}.
ResInit == ResIdle /\ res_total_field = TRUE

\* The server answers {items, total} or {items}.
ResInitAny == ResIdle /\ res_total_field \in BOOLEAN

Min(a, b) == IF a < b THEN a ELSE b
Max(a, b) == IF a > b THEN a ELSE b

\* The page GET privateResources?limit&offset serves: items lo..hi-1.
ResServerPage(limit, off) ==
    [lo |-> Min(off, res_catalog), hi |-> Min(off + limit, res_catalog)]

\* set(private_resources)
NameSet(ranges) == UNION {ranges[i].lo .. (ranges[i].hi - 1) : i \in DOMAIN ranges}

\* lines 104-106; the catalogue the server holds during this walk is c.
ResCall(c) ==
    /\ res_pc \in {"idle", "returned", "raised"}
    /\ res_pc' = "request"
    /\ res_offset' = 0
    /\ private_resources' = <<>>
    /\ total_resources' = 0
    /\ res_catalog' = c
    /\ res_requests' = <<>>
    /\ res_result' = {}
    /\ UNCHANGED res_total_field

\* line 116: response.json().get('total', 0)
ReportedTotal == IF res_total_field THEN res_catalog ELSE 0

\* line 126 with a strict comparison.
ResAllRetrievedStrict(off, total) == off > total

\* line 126: if offset >= total_resources
ResAllRetrieved(off, total) == off >= total

\* lines 109-127: one iteration of the loop.
ResPage ==
    /\ res_pc = "request"
    /\ res_requests' = Append(res_requests, res_offset)
    /\ total_resources' = ReportedTotal
    /\ LET data == ResServerPage(res_chunk_size, res_offset)
           names == Append(private_resources, data)
       IN IF data.hi > data.lo
            THEN /\ private_resources' = names
                 /\ res_offset' = res_offset + res_chunk_size
                 /\ IF ResAllRetrieved(res_offset + res_chunk_size, ReportedTotal)
                      THEN res_pc' = "returned" /\ res_result' = NameSet(names)
                      ELSE res_pc' = "request" /\ UNCHANGED res_result
            ELSE /\ res_pc' = "returned"
                 /\ res_result' = NameSet(private_resources)
                 /\ UNCHANGED <<private_resources, res_offset>>
    /\ UNCHANGED <<res_catalog, res_total_field>>

\* line 114: make_request raises after its last attempt; nothing catches it.
ResRaise ==
    /\ res_pc = "request"
    /\ res_requests' = Append(res_requests, res_offset)
    /\ res_pc' = "raised"
    /\ UNCHANGED <<res_offset, private_resources, total_resources,
                   res_catalog, res_total_field, res_result>>

ResNext ==
    \/ \E c \in 0..MaxResTotal : ResCall(c)
    \/ ResPage
    \/ ResRaise

(***************************************************************************)
(* The ZTNA ingester: clock, server log and snapshot directory.            *)
(*                                                                         *)
(* Time is in ms since 00:00 local time of day 0.  An entry of the         *)
(* server's log is identified by its timestamp and its rank among the      *)
(* entries of that timestamp; a list of entries is a sequence of segments  *)
(* [ts, lo, hi]: the entries of timestamp ts with ranks lo..hi-1.          *)
(***************************************************************************)
MsPerDay == MsPerHour * HoursPerDay

\* now.strftime('%Y%m%d')
Day(t) == t \div MsPerDay

\* now.strftime('%Y%m%d_%H'): the hour bucket of file ztna_<date>_<hour>.json
Bucket(t) == t \div MsPerHour

\* file_name.startswith(f"ztna_{today}")
BucketDay(b) == b \div HoursPerDay

\* int(now.replace(hour=5, minute=0, second=0, microsecond=0).timestamp() * 1000)
FiveAm(t) == Day(t) * MsPerDay + FiveAmHour * MsPerHour

\* The clock starts one ms before 05:00 of day 0.
Base == FiveAmHour * MsPerHour - 1

\* The sizes of the bursts of entries the server logs at one timestamp.
BurstSizes == {1, chunk_size, max_offset}

RECURSIVE SegLen(_)
SegLen(segs) ==
    IF segs = <<>> THEN 0
    ELSE (Head(segs).hi - Head(segs).lo) + SegLen(Tail(segs))

Range(f) == {f[i] : i \in DOMAIN f}

\* max([entry['timestamp'] for entry in existing_ztna_data])
MaxTimestamp(segs) ==
    CHOOSE m \in {sg.ts : sg \in Range(segs)} :
        \A sg \in Range(segs) : sg.ts <= m

\* last_entry_time = max(...) / 1000 ; int(last_entry_time * 1000): the
\* quotient and the product are rounded to doubles and int truncates.  The
\* round trip gives m back for the ms timestamps from 2004-11-03 to
\* 2038-01-19 (2^40 <= m < 2^31 * 1000) and m - 1 for many later ones
\* (2151284438148 gives 2151284438147).
MsRoundTrip(m) == {m, m - 1}

\* The window test of GET activity/ztna?from&to, whose end points the server
\* may or may not include.
InWindow(ts, from, to) ==
    /\ IF srv_from_incl THEN from <= ts ELSE from < ts
    /\ IF srv_to_incl THEN ts <= to ELSE ts < to

\* The slice [off, off + lim) of the entries of the runs, in log order.
RECURSIVE Slice(_, _, _)
Slice(runs, off, lim) ==
    IF runs = <<>> \/ lim <= 0 THEN <<>>
    ELSE LET r == Head(runs) IN
         IF off >= r.n THEN Slice(Tail(runs), off - r.n, lim)
         ELSE LET take == Min(r.n - off, lim) IN
              <<[ts |-> r.ts, lo |-> off, hi |-> off + take]>>
                  \o Slice(Tail(runs), 0, lim - take)

\* response.json().get('data', []) of GET activity/ztna?from&to&limit&offset
ZtnaServerPage(from, to, limit, off) ==
    Slice(SelectSeq(server, LAMBDA r : InWindow(r.ts, from, to)), off, limit)

\* The lists of the files of the buckets bs, concatenated in bucket order
\* (os.listdir gives the files in an order of its own; nothing below depends
\* on the order of the loaded list).
RECURSIVE ConcatFiles(_, _)
ConcatFiles(fs, bs) ==
    IF bs = {} THEN <<>>
    ELSE LET b == CHOOSE x \in bs : \A y \in bs : x <= y
         IN fs[b] \o ConcatFiles(fs, bs \ {b})

Restrict(f, S) == [x \in S |-> f[x]]

\* lines 151-155 of load_existing_ztna_data: the files of today.
TodayFiles(fs, t) == {b \in DOMAIN fs : BucketDay(b) = Day(t)}

\* clear_old_ztna_data keeping every file.
KeptFilesAll(fs, t) == DOMAIN fs

\* lines 167-169 of clear_old_ztna_data: the files kept.
KeptFiles(fs, t) == {b \in DOMAIN fs : BucketDay(b) = Day(t)}

\* save_ztna_data_hourly appending to the list the file holds.
WriteFileAppend(fs, b, data) ==
    [x \in DOMAIN fs \cup {b} |->
        IF x = b THEN (IF b \in DOMAIN fs THEN fs[b] ELSE <<>>) \o data
        ELSE fs[x]]

\* lines 139-140 of save_ztna_data_hourly: open(file_path, 'w'); json.dump
WriteFile(fs, b, data) ==
    [x \in DOMAIN fs \cup {b} |-> IF x = b THEN data ELSE fs[x]]

EnvInit ==
    /\ clock = Base
    /\ server = <<>>
    /\ srv_from_incl \in BOOLEAN
    /\ srv_to_incl \in BOOLEAN

ZtnaInit ==
    /\ files = <<>>
    /\ z_pc = "idle"
    /\ now = Base
    /\ existing_ztna_data = <<>>
    /\ from_timestamp = 0
    /\ to_timestamp = 0
    /\ time_chunk_size = 0
    /\ chunk_end_time = 0
    /\ offset = 0
    /\ new_ztna_data = <<>>
    /\ z_requests = <<>>
    /\ ztna_data = <<>>
    /\ ztna_day = Day(Base)
    /\ ztna_from = 0
    /\ undisturbed = FALSE
    /\ second_run = FALSE
    /\ failures = 0

(***************************************************************************)
(* The environment: time passes and the server logs activity.  The cycle   *)
(* reads the clock in lines 173, 164, 148 and 136: time passes between     *)
(* two cycles and before each of the later three readings.  The server     *)
(* logs between two cycles.                                                *)
(***************************************************************************)
BetweenCycles == z_pc \in {"idle", "done", "raised"}

BeforeClockRead == z_pc \in {"clear", "load", "save"}

\* The clock is observed at these instants: MaxMs + 1 instants 1, 2, 3, ...
\* ms apart from 04:59:59.999 of day 0 on (04:59:59.999, 05:00:00.000, .002,
\* .005, ...), then MaxHours instants an hour apart, then MaxDays instants
\* a day apart.
LastMs == Base + (MaxMs * (MaxMs + 1)) \div 2

Instant(i) ==
    IF i <= MaxMs THEN Base + (i * (i + 1)) \div 2
    ELSE IF i <= MaxMs + MaxHours THEN LastMs + (i - MaxMs) * MsPerHour
    ELSE LastMs + MaxHours * MsPerHour + (i - MaxMs - MaxHours) * MsPerDay

LastInstant == Instant(MaxMs + MaxHours + MaxDays)

Tick ==
    /\ BetweenCycles \/ BeforeClockRead
    /\ clock < LastInstant
    /\ \E i \in 1..(MaxMs + MaxHours + MaxDays) :
          /\ Instant(i - 1) = clock
          /\ clock' = Instant(i)
    /\ UNCHANGED <<server, srv_from_incl, srv_to_incl>>

\* n entries of timestamp clock are appended to the log.
ServerLog(n) ==
    /\ BetweenCycles
    /\ Len(server) < MaxRuns
    /\ IF server = <<>> THEN TRUE ELSE server[Len(server)].ts < clock
    /\ server' = Append(server, [ts |-> clock, n |-> n])
    /\ UNCHANGED <<clock, srv_from_incl, srv_to_incl>>

EnvNext ==
    \/ Tick
    \/ \E n \in BurstSizes : ServerLog(n)

(***************************************************************************)
(* fetch_and_process_ztna_data                                             *)
(***************************************************************************)

\* line 173: now = datetime.now(mexico_city_tz)
ZBegin ==
    /\ z_pc \in {"idle", "done", "raised"}
    /\ z_pc' = "clear"
    /\ now' = clock
    /\ second_run' = (z_pc = "done" /\ undisturbed)
    /\ undisturbed' = TRUE
    /\ UNCHANGED <<files, existing_ztna_data, from_timestamp, to_timestamp,
                   time_chunk_size, chunk_end_time, offset, new_ztna_data,
                   z_requests, ztna_data, ztna_day, ztna_from, failures>>

\* line 177: clear_old_ztna_data()
ZClear ==
    /\ z_pc = "clear"
    /\ files' = Restrict(files, KeptFiles(files, clock))
    /\ z_pc' = "load"
    /\ UNCHANGED <<now, existing_ztna_data, from_timestamp, to_timestamp,
                   time_chunk_size, chunk_end_time, offset, new_ztna_data,
                   z_requests, ztna_data>>

\* line 193: (to_timestamp - from_timestamp) // (max_offset // chunk_size)
TimeChunkSize(from, to) == (to - from) \div (max_offset \div chunk_size)

\* line 198 without the min.
ChunkEndUnclamped(from, chunk, to) == from + chunk

\* line 198: min(from_timestamp + time_chunk_size, to_timestamp)
ChunkEnd(from, chunk, to) == Min(from + chunk, to)

\* lines 197-199: the test of the outer loop with from_timestamp = f; the
\* next sub-window is entered or the loop is left.
EnterWindow(f, chunk, to) ==
    /\ from_timestamp' = f
    /\ offset' = 0
    /\ IF f < to
         THEN z_pc' = "page" /\ chunk_end_time' = ChunkEnd(f, chunk, to)
         ELSE z_pc' = "save" /\ UNCHANGED chunk_end_time

\* lines 180-199: load_existing_ztna_data(), the window, the first test of
\* the outer loop.
ZLoad ==
    /\ z_pc = "load"
    /\ LET loaded == ConcatFiles(files, TodayFiles(files, clock))
           to == now
       IN /\ existing_ztna_data' = loaded
          /\ to_timestamp' = to
          /\ new_ztna_data' = <<>>
          /\ \E f \in (IF loaded # <<>> THEN MsRoundTrip(MaxTimestamp(loaded))
                                        ELSE {FiveAm(now)}) :
                /\ time_chunk_size' = TimeChunkSize(f, to)
                /\ EnterWindow(f, TimeChunkSize(f, to), to)
    /\ UNCHANGED <<files, now, z_requests, ztna_data>>

\* line 219 with a strict comparison.
OffsetLimitHitStrict(off) == off > max_offset

\* line 219: if offset >= max_offset
OffsetLimitHit(off) == off >= max_offset

\* line 214: if not ztna_data or len(ztna_data) < chunk_size
LastPage(page) == page = <<>> \/ SegLen(page) < chunk_size

\* The call is over: its locals are gone.
LocalsGone ==
    /\ now' = Base
    /\ existing_ztna_data' = <<>>
    /\ new_ztna_data' = <<>>
    /\ from_timestamp' = 0
    /\ to_timestamp' = 0
    /\ time_chunk_size' = 0
    /\ chunk_end_time' = 0
    /\ offset' = 0
    /\ z_requests' = <<>>

\* line 169: os.remove raises OSError for a file of another day, after any
\* number of the others have been removed (os.listdir gives them in an order
\* of its own): nothing catches it, the cycle is over.
ZClearIOError ==
    /\ z_pc = "clear"
    /\ failures < MaxFailures
    /\ failures' = failures + 1
    /\ \E left \in SUBSET (DOMAIN files \ KeptFiles(files, clock)) :
          /\ left # {}
          /\ files' = Restrict(files, KeptFiles(files, clock) \cup left)
    /\ z_pc' = "raised"
    /\ LocalsGone
    /\ UNCHANGED ztna_data

\* lines 202-220, 226-227: make_request answers with a response.
ZPageOk ==
    /\ z_pc = "page"
    /\ Len(z_requests) < MaxCycleRequests
    /\ z_requests' =
          Append(z_requests,
                 [from |-> from_timestamp, to |-> chunk_end_time,
                  offset |-> offset,
                  got |-> SegLen(ZtnaServerPage(from_timestamp, chunk_end_time,
                                                chunk_size, offset))])
    /\ LET data == ZtnaServerPage(from_timestamp, chunk_end_time,
                                       chunk_size, offset)
       IN /\ new_ztna_data' = new_ztna_data \o data
          /\ IF LastPage(data) \/ OffsetLimitHit(offset + chunk_size)
               THEN EnterWindow(chunk_end_time, time_chunk_size, to_timestamp)
               ELSE /\ offset' = offset + chunk_size
                    /\ UNCHANGED <<z_pc, from_timestamp, chunk_end_time>>
    /\ UNCHANGED <<files, now, existing_ztna_data, to_timestamp,
                   time_chunk_size, ztna_data>>

\* lines 222-224 with the loop of the sub-windows left too.
AfterErrorStop(chunk_end, to) == to

\* lines 222-227: the break leaves the loop of the pages only; line 227 moves
\* from_timestamp to the end of the sub-window.
AfterError(chunk_end, to) == chunk_end

\* lines 222-227: make_request raises HTTPError after its last attempt.
ZPageHttpError ==
    /\ z_pc = "page"
    /\ Len(z_requests) < MaxCycleRequests
    /\ failures < MaxFailures
    /\ failures' = failures + 1
    /\ z_requests' =
          Append(z_requests,
                 [from |-> from_timestamp, to |-> chunk_end_time,
                  offset |-> offset, got |-> -1])
    /\ EnterWindow(AfterError(chunk_end_time, to_timestamp), time_chunk_size,
                   to_timestamp)
    /\ UNCHANGED <<files, now, existing_ztna_data, to_timestamp,
                   time_chunk_size, new_ztna_data, ztna_data>>

\* line 210: make_request raises another request exception (ConnectionError,
\* Timeout) after its last attempt: nothing catches it, the cycle is over.
ZPageRaise ==
    /\ z_pc = "page"
    /\ Len(z_requests) < MaxCycleRequests
    /\ failures < MaxFailures
    /\ failures' = failures + 1
    /\ z_pc' = "raised"
    /\ LocalsGone
    /\ UNCHANGED <<files, ztna_data>>

\* The from_timestamp of lines 182-186, when the loop is left: the loop moves
\* from_timestamp only after a request.
FirstFrom == IF z_requests = <<>> THEN from_timestamp ELSE z_requests[1].from

\* line 230 without the test.
ShouldSaveAlways(new) == TRUE

\* line 230: if new_ztna_data
ShouldSave(new) == new # <<>>

\* lines 139, 230-231: open(file_path, 'w') raises OSError: nothing catches
\* it, the cycle is over and returns nothing; the file is as it was.
ZSaveIOError ==
    /\ z_pc = "save"
    /\ ShouldSave(new_ztna_data)
    /\ failures < MaxFailures
    /\ failures' = failures + 1
    /\ z_pc' = "raised"
    /\ LocalsGone
    /\ UNCHANGED <<files, ztna_data>>

\* lines 229-235: save_ztna_data_hourly(new_ztna_data), and the return of
\* all_ztna_data to line 489.
ZSave ==
    /\ z_pc = "save"
    /\ files' = IF ShouldSave(new_ztna_data)
                  THEN WriteFile(files, Bucket(clock), new_ztna_data)
                  ELSE files
    /\ ztna_data' = existing_ztna_data \o new_ztna_data
    /\ ztna_day' = Day(now)
    /\ ztna_from' = FirstFrom
    /\ z_pc' = "done"
    /\ LocalsGone

ZtnaNext ==
    \/ ZBegin /\ UNCHANGED envVars
    \/ ZClear /\ UNCHANGED <<envVars, histVars>>
    \/ ZLoad /\ UNCHANGED <<envVars, histVars>>
    \/ ZPageOk /\ UNCHANGED <<envVars, histVars>>
    \/ ZPageHttpError /\ UNCHANGED <<envVars, ztna_day, ztna_from, undisturbed, second_run>>
    \/ ZPageRaise /\ UNCHANGED <<envVars, ztna_day, ztna_from, undisturbed, second_run>>
    \/ ZSave /\ UNCHANGED <<envVars, undisturbed, second_run, failures>>
    \/ ZClearIOError /\ UNCHANGED <<envVars, ztna_day, ztna_from, undisturbed, second_run>>
    \/ ZSaveIOError /\ UNCHANGED <<envVars, ztna_day, ztna_from, undisturbed, second_run>>
    \/ EnvNext /\ undisturbed' = FALSE /\ second_run' = FALSE
               /\ UNCHANGED <<ztnaVars, ztna_day, ztna_from, failures>>

(***************************************************************************)
(* The reconciliation of the main script: identities against enrollment    *)
(* summaries (lines 290-339), the frame of enrolled users (342-350), the   *)
(* identifier map (359), the table of unenrolled users (400-410) and the   *)
(* attribution of the VPN connections (440-465).                           *)
(*                                                                         *)
(* A string is the sequence of its tokens: the name of identity k, the     *)
(* delimiter " (", the character ")", the code (a letter and 7 digits) of  *)
(* identity k, and text that holds neither a delimiter nor a code.         *)
(***************************************************************************)
TName(k) == [t |-> "name", k |-> k]
TOpen == [t |-> "open", k |-> 0]
TClose == [t |-> "close", k |-> 0]
TCode(k) == [t |-> "code", k |-> k]
TText == [t |-> "text", k |-> 0]

\* The labels of identity k: "<name> (<code><text>)", "<name> (<text>)" with
\* no code in the email, and "<name>" with no delimiter.
LabelKinds == {"coded", "plain", "bare"}

Label(k, kind) ==
    IF kind = "coded" THEN <<TName(k), TOpen, TCode(k), TText, TClose>>
    ELSE IF kind = "plain" THEN <<TName(k), TOpen, TText, TClose>>
    ELSE <<TName(k)>>

\* x.split(' ('): the pieces of x between the delimiters.
RECURSIVE SplitOpen(_)
SplitOpen(x) ==
    IF \A i \in DOMAIN x : x[i] # TOpen THEN <<x>>
    ELSE LET p == CHOOSE i \in DOMAIN x :
                      x[i] = TOpen /\ \A j \in 1..(i - 1) : x[j] # TOpen
         IN <<SubSeq(x, 1, p - 1)>> \o SplitOpen(SubSeq(x, p + 1, Len(x)))

\* x.replace(')', '')
DropClose(x) == SelectSeq(x, LAMBDA tok : tok # TClose)

NoCode == [t |-> "None", k |-> 0]

\* lines 52-54, 359: re.search(r'[A-Za-z]\d{7}', x): the first code of x, or
\* None.
FirstCode(x) ==
    IF \A i \in DOMAIN x : x[i].t # "code" THEN NoCode
    ELSE x[CHOOSE i \in DOMAIN x :
               x[i].t = "code" /\ \A j \in 1..(i - 1) : x[j].t # "code"]

\* The sizes of the directory.
RecSizes == {0, 1, rec_chunk_size, MaxIdentities}

\* The list of n identities of ids 1..n; the first and the last have a label
\* of kinds k1 and kn, the others are "<name> (<code><text>)".
Directory(n, k1, kn) ==
    [i \in 1..n |->
        [id |-> i,
         label |-> Label(i, IF i = 1 THEN k1 ELSE IF i = n THEN kn
                            ELSE "coded")]]

RecIdle ==
    /\ rec_pc = "idle"
    /\ identities = <<>>
    /\ rec_i = 0
    /\ user_summaries = <<>>
    /\ user_details = <<>>
    /\ users_not_enrolled = <<>>
    /\ df = <<>>
    /\ identifier_to_user_map = <<>>
    /\ df_no_enrollment = <<>>
    /\ vpn_data = <<>>
    /\ rec_error = "none"

\* lines 290-302
RecInit ==
    /\ rec_pc = "chunk"
    /\ \E n \in RecSizes : \E k1 \in LabelKinds : \E kn \in LabelKinds :
          identities = Directory(n, k1, kn)
    /\ rec_i = 0
    /\ user_summaries = <<>>
    /\ user_details = <<>>
    /\ users_not_enrolled = <<>>
    /\ df = <<>>
    /\ identifier_to_user_map = <<>>
    /\ df_no_enrollment = <<>>
    /\ vpn_data = <<>>
    /\ rec_error = "none"

\* The sequences of at most n elements of S.
SeqsUpTo(S, n) == UNION {[1..m -> S] : m \in 0..n}

\* The responses to the request of line 310 for a chunk: summaries of the
\* first and of the last identity of the chunk and of an identity that is not
\* in the directory, in any order, each any number of times.  userId is the
\* value int(summary['userId']) of lines 313 and 321.
SummaryResponses(chunk) ==
    SeqsUpTo({[userId |-> u, active |-> 1] :
                 u \in {chunk[1].id, chunk[Len(chunk)].id, 0}}, MaxSummaries)

\* lines 320-329: the rows of an enrolled identity, one for every summary
\* that carries its id.
RowsOf(identity, summaries) ==
    LET hits == SelectSeq(summaries,
                          LAMBDA sm : sm.userId = identity.id)
    IN [j \in 1..Len(hits) |->
           [id |-> identity.id, Name |-> identity.label,
            active |-> hits[j].active]]

\* lines 316-329, for the identities of the chunk from the k-th on.
RECURSIVE Enrolled(_, _, _)
Enrolled(chunk, k, summaries) ==
    IF k > Len(chunk) THEN <<>>
    ELSE (IF chunk[k].id \in {sm.userId : sm \in Range(summaries)}
            THEN RowsOf(chunk[k], summaries) ELSE <<>>)
         \o Enrolled(chunk, k + 1, summaries)

NotEnrolled(chunk, summaries) ==
    SelectSeq(chunk, LAMBDA identity :
        identity.id \notin {sm.userId : sm \in Range(summaries)})

\* lines 305-333: one iteration of the loop over the chunks.
RecChunk(summaries) ==
    /\ rec_pc = "chunk"
    /\ rec_i < Len(identities)
    /\ LET chunk == SubSeq(identities, rec_i + 1,
                           Min(rec_i + rec_chunk_size, Len(identities)))
       IN /\ user_details' = user_details \o Enrolled(chunk, 1, summaries)
          /\ users_not_enrolled' =
                users_not_enrolled \o NotEnrolled(chunk, summaries)
    /\ rec_i' = rec_i + rec_chunk_size
    /\ user_summaries' = summaries
    /\ UNCHANGED <<rec_pc, identities, df, identifier_to_user_map,
                   df_no_enrollment, vpn_data, rec_error>>

\* The script is over with an exception.
RecAbort(e) ==
    /\ rec_pc' = "raised"
    /\ rec_error' = e

\* line 310: make_request raises after its last attempt.
RecRaise ==
    /\ rec_pc = "chunk"
    /\ rec_i < Len(identities)
    /\ RecAbort("RequestException")
    /\ UNCHANGED <<identities, rec_i, user_summaries, user_details, users_not_enrolled, df,
                   identifier_to_user_map, df_no_enrollment, vpn_data>>

\* lines 342-350: the frame of the rows; a frame of no rows has no column
\* Name (KeyError), a Name with no delimiter has no piece [1] (IndexError).
RecSplit ==
    /\ rec_pc = "chunk"
    /\ rec_i >= Len(identities)
    /\ IF user_details = <<>>
         THEN RecAbort("KeyError") /\ UNCHANGED df
       ELSE IF \E r \in Range(user_details) : Len(SplitOpen(r.Name)) < 2
         THEN RecAbort("IndexError") /\ UNCHANGED df
       ELSE /\ df' = [j \in DOMAIN user_details |->
                         [id |-> user_details[j].id,
                          Usuario |-> SplitOpen(user_details[j].Name)[1],
                          Correo |-> DropClose(SplitOpen(user_details[j].Name)[2])]]
            /\ rec_pc' = "map"
            /\ UNCHANGED rec_error
    /\ UNCHANGED <<identities, rec_i, user_summaries, user_details, users_not_enrolled,
                   identifier_to_user_map, df_no_enrollment, vpn_data>>

\* The dict of the pairs (code of Correo, Usuario) of the rows, a later row
\* replacing an earlier one of the same code.
MapOf(rows) ==
    [c \in {FirstCode(r.Correo) : r \in Range(rows)} |->
        rows[CHOOSE j \in DOMAIN rows :
                 /\ FirstCode(rows[j].Correo) = c
                 /\ \A l \in DOMAIN rows :
                       FirstCode(rows[l].Correo) = c => l <= j].Usuario]

\* line 359: re.search(...) is None for a Correo with no code, and None has
\* no group (AttributeError).
RecMap ==
    /\ rec_pc = "map"
    /\ IF \E r \in Range(df) : FirstCode(r.Correo) = NoCode
         THEN RecAbort("AttributeError") /\ UNCHANGED identifier_to_user_map
         ELSE /\ identifier_to_user_map' = MapOf(df)
              /\ rec_pc' = "unenrolled"
              /\ UNCHANGED rec_error
    /\ UNCHANGED <<identities, rec_i, user_summaries, user_details, users_not_enrolled, df,
                   df_no_enrollment, vpn_data>>

\* lines 399-410
RecUnenrolled ==
    /\ rec_pc = "unenrolled"
    /\ IF \E u \in Range(users_not_enrolled) : Len(SplitOpen(u.label)) < 2
         THEN RecAbort("IndexError") /\ UNCHANGED df_no_enrollment
         ELSE /\ df_no_enrollment' =
                    [j \in DOMAIN users_not_enrolled |->
                        [id |-> users_not_enrolled[j].id,
                         Usuario |-> SplitOpen(users_not_enrolled[j].label)[1],
                         Correo |-> DropClose(
                                      SplitOpen(users_not_enrolled[j].label)[2])]]
              /\ rec_pc' = "vpn"
              /\ UNCHANGED rec_error
    /\ UNCHANGED <<identities, rec_i, user_summaries, user_details, users_not_enrolled, df,
                   identifier_to_user_map, vpn_data>>

\* The device names of the connections: text with the code of the first or
\* of the last identity or of no identity, or with no code.
DeviceNames ==
    {<<TText, TCode(k)>> : k \in {1, Len(identities), 0}} \cup {<<TText>>}

Unknown == <<[t |-> "Unknown", k |-> 0]>>

\* lines 452-453: identifier_to_user_map.get(identifier, 'Unknown')
UsuarioOf(device_name) ==
    IF FirstCode(device_name) \in DOMAIN identifier_to_user_map
      THEN identifier_to_user_map[FirstCode(device_name)]
      ELSE Unknown

\* lines 440-465, for the connections the VPN walk returned.
RecVpn(connections) ==
    /\ rec_pc = "vpn"
    /\ vpn_data' = [j \in DOMAIN connections |->
                       [deviceName |-> connections[j],
                        Usuario |-> UsuarioOf(connections[j])]]
    /\ rec_pc' = "done"
    /\ UNCHANGED <<identities, rec_i, user_summaries, user_details, users_not_enrolled, df,
                   identifier_to_user_map, df_no_enrollment, rec_error>>

\* The server answers the request of line 310.
RecChunkAny ==
    /\ rec_pc = "chunk"
    /\ rec_i < Len(identities)
    /\ \E summaries \in
            SummaryResponses(SubSeq(identities, rec_i + 1,
                  Min(rec_i + rec_chunk_size, Len(identities)))) :
          RecChunk(summaries)

RecNext ==
    \/ RecChunkAny
    \/ RecRaise
    \/ RecSplit
    \/ RecMap
    \/ RecUnenrolled
    \/ \E connections \in SeqsUpTo(DeviceNames, MaxConnections) :
          RecVpn(connections)

(***************************************************************************)
(* The cache of make_request: @st.cache_data(ttl=3600), line 57.           *)
(* The decorator keys an entry on the values of all the arguments of the   *)
(* call, keeps what the function returned for ttl seconds and keeps        *)
(* nothing when the function raised.                                       *)
(***************************************************************************)
Urls == {"identities", "userSummaries"}
Headers == {"Bearer a", "Bearer b"}     \* one bearer token per session
Params == {"none"}

\* line 58: the arguments of a call, defaults filled in.
Keys == [url : Urls, headers : Headers, params : Params,
         max_retries : 0..MaxCacheRetries, timeout : {DefaultTimeout},
         delay : {DefaultDelay}]

NoKey == [url |-> "", headers |-> "", params |-> "", max_retries |-> 0,
          timeout |-> 0, delay |-> 0]

\* An entry never expires.
FreshForever(at, t) == TRUE

\* ttl=3600: an entry written at `at` is served while its age is below ttl.
Fresh(at, t) == t - at < ttl

Hit(c, k, t) == IF k \in DOMAIN c THEN Fresh(c[k].at, t) ELSE FALSE

CacheInit ==
    /\ c_pc = "idle"
    /\ c_key = NoKey
    /\ c_time = 0
    /\ cache = << >>
    /\ c_result = NoResult
    /\ c_calls = 0

\* A call make_request(url, headers, params, max_retries, timeout, delay)
\* through the decorator: a fresh entry is handed back, otherwise the body
\* of make_request starts.
CachedCall(k) ==
    /\ c_pc \in {"idle", "served", "returned", "raised"}
    /\ c_calls < MaxCacheCalls
    /\ c_key' = k
    /\ c_calls' = c_calls + 1
    /\ IF Hit(cache, k, c_time)
         THEN /\ c_pc' = "served"
              /\ c_result' = cache[k].value
              /\ UNCHANGED fetchVars
         ELSE /\ c_pc' = "running"
              /\ c_result' = NoResult
              /\ MrCall(k.max_retries, k.delay)
    /\ UNCHANGED <<c_time, cache>>

\* lines 59-70 run under the decorator.
CachedBody ==
    /\ c_pc = "running"
    /\ \/ MrAttemptOk
       \/ \E e \in RequestExceptions : MrAttemptFail(e)
    /\ UNCHANGED cacheVars

\* make_request returned: the decorator stores the value and hands it on.
CacheStore ==
    /\ c_pc = "running"
    /\ mr_pc = "returned"
    /\ cache' = [k \in DOMAIN cache \cup {c_key} |->
                    IF k = c_key THEN [at |-> c_time, value |-> mr_result]
                                 ELSE cache[k]]
    /\ c_result' = mr_result
    /\ c_pc' = "returned"
    /\ UNCHANGED <<c_key, c_time, c_calls, fetchVars>>

\* make_request raised: the exception passes through the decorator.
CacheRaise ==
    /\ c_pc = "running"
    /\ mr_pc = "raised"
    /\ c_result' = mr_result
    /\ c_pc' = "raised"
    /\ UNCHANGED <<c_key, c_time, cache, c_calls, fetchVars>>

\* Time passes.
CacheTime ==
    /\ c_time < MaxCacheTicks * CacheTick
    /\ c_time' = c_time + CacheTick
    /\ UNCHANGED <<c_pc, c_key, cache, c_result, c_calls, fetchVars>>

CacheNext ==
    \/ \E k \in Keys : CachedCall(k)
    \/ CachedBody
    \/ CacheStore
    \/ CacheRaise
    \/ CacheTime

(***************************************************************************)
(* Specifications, one per component.                                      *)
(***************************************************************************)
\* The server of the ZTNA ingester, where it is not under study.
EnvFixed ==
    /\ clock = Base
    /\ server = <<>>
    /\ srv_from_incl = TRUE
    /\ srv_to_incl = TRUE

InitAll == FetchInit /\ VpnInit /\ ResInit /\ EnvFixed /\ ZtnaInit /\ RecIdle /\ CacheInit

NextFetch == FetchNext /\ UNCHANGED <<vpnVars, resVars, envVars, ztnaVars, histVars, recVars, cacheVars>>
SpecFetch == InitAll /\ [][NextFetch]_vars

NextVpn == VpnNext /\ UNCHANGED <<fetchVars, resVars, envVars, ztnaVars, histVars, recVars, cacheVars>>
SpecVpn == InitAll /\ [][NextVpn]_vars

NextRes == ResNext /\ UNCHANGED <<fetchVars, vpnVars, envVars, ztnaVars, histVars, recVars, cacheVars>>
SpecRes == InitAll /\ [][NextRes]_vars

InitZtna == FetchInit /\ VpnInit /\ ResInit /\ EnvInit /\ ZtnaInit /\ RecIdle /\ CacheInit
NextZtna == ZtnaNext /\ UNCHANGED <<fetchVars, vpnVars, resVars, recVars,
                                     cacheVars>>
SpecZtna == InitZtna /\ [][NextZtna]_vars

InitResAny == FetchInit /\ VpnInit /\ ResInitAny /\ EnvFixed /\ ZtnaInit /\ RecIdle /\ CacheInit
SpecResAny == InitResAny /\ [][NextRes]_vars

InitRec == FetchInit /\ VpnInit /\ ResInit /\ EnvFixed /\ ZtnaInit /\ RecInit /\ CacheInit
NextRec == RecNext /\ UNCHANGED <<fetchVars, vpnVars, resVars, envVars,
                                   ztnaVars, histVars, cacheVars>>
SpecRec == InitRec /\ [][NextRec]_vars

NextCache == CacheNext /\ UNCHANGED <<vpnVars, resVars, envVars, ztnaVars,
                                       histVars, recVars>>
SpecCache == InitAll /\ [][NextCache]_vars

(***************************************************************************)
(* C1: with the defaults (max_retries=5, delay=1), a call whose first N    *)
(* GETs fail (0 <= N <= 4) and whose GET N+1 succeeds issues exactly N+1   *)
(* GETs, waits exactly N times with durations 1, 2, 4, ... between them    *)
(* and returns the response of GET N+1.                                    *)
(***************************************************************************)
C1_BackoffThenSuccess ==
    (mr_pc = "returned" /\ max_retries = DefaultMaxRetries
                        /\ delay_arg = DefaultDelay)
        => LET N == Len(errors) IN
           /\ N <= DefaultMaxRetries - 1
           /\ gets = N + 1
           /\ Len(waits) = N
           /\ \A i \in 1..N : waits[i] = Pow2(i - 1)
           /\ \A i \in 1..(N - 1) : waits[i + 1] = 2 * waits[i]
           /\ mr_result = [kind |-> "response", get |-> N + 1]

\* Four failures then a success, with the defaults: waits 1, 2, 4, 8.
C1_Witness ==
    /\ mr_pc = "returned"
    /\ max_retries = DefaultMaxRetries
    /\ delay_arg = DefaultDelay
    /\ Len(errors) = 4
    /\ waits = <<1, 2, 4, 8>>
    /\ mr_result = [kind |-> "response", get |-> 5]

(***************************************************************************)
(* C10: for every max_retries, a call either returns a successful          *)
(* response or raises; it raises only after exactly max_retries failed     *)
(* GETs, with the error of the final attempt, and without waiting after    *)
(* the final attempt.                                                      *)
(***************************************************************************)
C10_ReturnsResponseOrRaises ==
    /\ mr_pc = "returned" => mr_result.kind = "response"
    /\ mr_pc = "raised" =>
          /\ gets = max_retries
          /\ Len(errors) = max_retries
          /\ mr_result = errors[Len(errors)]
          /\ Len(waits) = max_retries - 1

(***************************************************************************)
(* C8: a walk of fetch_vpn_user_connections requests the offsets 0, 500,   *)
(* 1000, ... each once; it stops at the first page that is empty or holds  *)
(* fewer than 500 items, so the number of requests is the index of that    *)
(* page, and it returns the concatenation of the pages received, in order. *)
(***************************************************************************)
C8_ShortPageTermination ==
    /\ \A i \in DOMAIN vpn_requests : vpn_requests[i] = (i - 1) * vpn_chunk_size
    /\ vpn_pc \in {"request", "returned"} =>
          \A i \in DOMAIN vpn_pages :
              (vpn_pc = "request" \/ i < Len(vpn_pages)) =>
                  vpn_pages[i] = vpn_chunk_size
    /\ vpn_pc = "request" => Len(vpn_requests) = Len(vpn_pages)
    /\ vpn_pc = "returned" =>
          /\ Len(vpn_pages) >= 1
          /\ vpn_pages[Len(vpn_pages)] < vpn_chunk_size
          /\ Len(vpn_requests) = Len(vpn_pages)
          /\ LET full == Len(vpn_pages) - 1
                 last == vpn_pages[Len(vpn_pages)]
             IN /\ SumSizes(vpn_user_connections) = full * vpn_chunk_size + last
                /\ Len(vpn_user_connections) = IF last = 0 THEN full ELSE full + 1
                /\ \A i \in DOMAIN vpn_user_connections :
                      vpn_user_connections[i] =
                          [offset |-> vpn_requests[i], n |-> vpn_pages[i]]

\* Pages of sizes 500, 500, 230: 1230 items in exactly 3 calls.
C8_Witness ==
    /\ vpn_pc = "returned"
    /\ vpn_pages = <<500, 500, 230>>
    /\ Len(vpn_requests) = 3
    /\ SumSizes(vpn_user_connections) = 1230

(***************************************************************************)
(* C9: a walk of fetch_all_private_resources stops exactly when the        *)
(* cumulative offset reaches or exceeds the total the server reports; it   *)
(* then holds the names of all `total` resources, and no page after the    *)
(* first is requested at an offset >= total.                               *)
(***************************************************************************)
C9_TotalTermination ==
    /\ \A i \in DOMAIN res_requests : res_requests[i] = (i - 1) * res_chunk_size
    /\ \A i \in DOMAIN res_requests : i > 1 => res_requests[i] < res_catalog
    /\ (res_pc = "request" /\ res_requests # <<>>) =>
          /\ total_resources = res_catalog
          /\ res_offset < total_resources
    /\ res_pc = "returned" =>
          /\ res_offset >= total_resources
          /\ res_offset - res_chunk_size < total_resources
          /\ res_result = 0 .. (total_resources - 1)
          /\ Cardinality(res_result) = total_resources

\* total = 150: pages of 100 and 50 names, 2 requests, all 150 names.
C9_Witness ==
    /\ res_pc = "returned"
    /\ total_resources = 150
    /\ res_requests = <<0, 100>>
    /\ private_resources = <<[lo |-> 0, hi |-> 100], [lo |-> 100, hi |-> 150]>>
    /\ Cardinality(res_result) = 150

(***************************************************************************)
(* The cycle, as the claims below observe it.                              *)
(***************************************************************************)
\* Every entry of the segment sg is an entry of the list segs.
CoveredBy(sg, segs) ==
    LET same == {t \in Range(segs) : t.ts = sg.ts}
        starts == {sg.lo} \cup
                  {t.hi : t \in {u \in same : sg.lo < u.hi /\ u.hi < sg.hi}}
    IN \A k \in starts : \E t \in same : t.lo <= k /\ k < t.hi

\* The entries of the list segs of a timestamp after t.
After(segs, t) == SelectSeq(segs, LAMBDA sg : sg.ts > t)

\* The cycle returns: lines 229-235.
Returns == z_pc = "save" /\ z_pc' = "done"

\* The first requests of the sub-windows of the cycle, in order.
SubWindows == SelectSeq(z_requests, LAMBDA r : r.offset = 0)

(***************************************************************************)
(* C2: the list returned by a cycle contains every entry of the list that  *)
(* the previous returning cycle of the same day returned (and so, step by  *)
(* step, every entry an earlier cycle of that day fetched and returned).   *)
(* The cycles observed run within one day and no request has failed.       *)
(***************************************************************************)
C2_AccumulatesWithinDay ==
    [][(Returns /\ ztna_day = Day(now) /\ Day(clock) = Day(now)
                /\ failures = 0)
          => \A i \in DOMAIN ztna_data : CoveredBy(ztna_data[i], ztna_data')]_vars

(***************************************************************************)
(* C3: a cycle run right after a cycle that returned, with the same now,   *)
(* the same server data and no failed request, returns as many entries of  *)
(* a timestamp after the from_timestamp of that cycle as that cycle        *)
(* returned (what it had loaded plus what it had fetched): none of them    *)
(* twice.  The second cycle observed starts from exactly the last          *)
(* timestamp it loaded.                                                    *)
(***************************************************************************)
C3_SecondRunSameCount ==
    [][(/\ Returns /\ second_run /\ undisturbed /\ failures = 0
        /\ existing_ztna_data # <<>>
        /\ FirstFrom = MaxTimestamp(existing_ztna_data))
          => SegLen(After(ztna_data', ztna_from))
                 = SegLen(After(ztna_data, ztna_from))]_vars

(***************************************************************************)
(* C4: clear_old_ztna_data leaves the files of today untouched and no      *)
(* other file; load_existing_ztna_data returns entries of the files of     *)
(* today only; and when it returns none, from_timestamp is 05:00 of the    *)
(* day of the cycle.                                                       *)
(***************************************************************************)
C4_DayRollover ==
    [][/\ (z_pc = "clear" /\ z_pc' = "load") =>
              /\ \A b \in DOMAIN files' : BucketDay(b) = Day(clock)
              /\ \A b \in DOMAIN files :
                    BucketDay(b) = Day(clock) =>
                        b \in DOMAIN files' /\ files'[b] = files[b]
       /\ (z_pc = "load" /\ z_pc' # "load") =>
              /\ \A i \in DOMAIN existing_ztna_data' :
                    \E b \in DOMAIN files :
                        /\ BucketDay(b) = Day(clock)
                        /\ existing_ztna_data'[i] \in Range(files[b])
              /\ existing_ztna_data' = <<>> =>
                    /\ from_timestamp' = Day(now) * MsPerDay + 5 * MsPerHour
                    /\ from_timestamp' % MsPerDay = 5 * MsPerHour]_vars

\* The first cycle of day 1 after a cycle of day 0 that returned entries:
\* the files of day 0 are gone, nothing is loaded, from is 05:00 of day 1.
C4_Witness ==
    /\ z_pc = "page"
    /\ Day(now) = 1
    /\ ztna_day = 0
    /\ ztna_data # <<>>
    /\ DOMAIN files = {}
    /\ existing_ztna_data = <<>>
    /\ z_requests = <<>>
    /\ from_timestamp = MsPerDay + 5 * MsPerHour

(***************************************************************************)
(* C5: when a cycle that fetched new entries saves in an hour bucket whose *)
(* file exists, the file then holds exactly the entries fetched in this    *)
(* cycle, and every other file is as it was.                               *)
(***************************************************************************)
C5_SnapshotOverwrite ==
    [][(Returns /\ new_ztna_data # <<>> /\ Bucket(clock) \in DOMAIN files)
          => /\ DOMAIN files' = DOMAIN files
             /\ files'[Bucket(clock)] = new_ztna_data
             /\ \A b \in DOMAIN files :
                   b # Bucket(clock) => files'[b] = files[b]]_vars

\* A cycle has returned what it loaded from the only file and what it
\* fetched, and the file holds fewer entries than it returned.
C5_Witness ==
    /\ z_pc = "done"
    /\ DOMAIN files = {Bucket(clock)}
    /\ files[Bucket(clock)] # <<>>
    /\ SegLen(files[Bucket(clock)]) < SegLen(ztna_data)
    /\ \E i \in DOMAIN ztna_data :
          ~ CoveredBy(ztna_data[i], files[Bucket(clock)])

(***************************************************************************)
(* C6, as stated: a cycle with from < to that leaves its loop has fetched  *)
(* exactly 3 sub-windows, each starting where the previous one ended, from *)
(* `from` to `to`, each a third of to - from long.                         *)
(***************************************************************************)
C6_ThreeEqualSubWindows ==
    (z_pc = "save" /\ z_requests # <<>>) =>
        LET W == SubWindows
            f == z_requests[1].from
        IN /\ Len(W) = 3
           /\ W[1].from = f
           /\ \A i \in 2..Len(W) : W[i].from = W[i - 1].to
           /\ W[Len(W)].to = to_timestamp
           /\ \A i \in DOMAIN W : 3 * (W[i].to - W[i].from) = to_timestamp - f

(***************************************************************************)
(* C6, amended: the sub-windows of a cycle with from < to start at `from`, *)
(* each starts where the previous one ended and is c = (to - from) div 3   *)
(* long, except that none ends after `to`.  A cycle that leaves its loop   *)
(* has to - from >= 3 and has fetched sub-windows that cover [from, to):   *)
(* 3 when 3 divides to - from, 5 when to - from = 5 and 4 otherwise, all   *)
(* of them c long but the fourth of four, which is (to - from) mod 3 long. *)
(* When to - from < 3, c is 0 and every sub-window is [from, from].        *)
(***************************************************************************)
C6_SubWindowsWithRemainder ==
    (z_pc \in {"page", "save"} /\ z_requests # <<>>) =>
        LET W == SubWindows
            f == z_requests[1].from
            t == to_timestamp
            c == time_chunk_size
        IN /\ f < t
           /\ 3 * c <= t - f /\ t - f < 3 * c + 3
           /\ W[1].from = f
           /\ \A i \in 2..Len(W) : W[i].from = W[i - 1].to
           /\ \A i \in DOMAIN W :
                 W[i].to = IF W[i].from + c < t THEN W[i].from + c ELSE t
           /\ \A i \in DOMAIN z_requests :
                 \E j \in DOMAIN W : /\ z_requests[i].from = W[j].from
                                     /\ z_requests[i].to = W[j].to
           /\ z_pc = "save" =>
                 /\ t - f >= 3
                 /\ W[Len(W)].to = t
                 /\ Len(W) = IF (t - f) % 3 = 0 THEN 3
                             ELSE IF t - f = 5 THEN 5 ELSE 4
                 /\ \A i \in 1..(Len(W) - 1) : W[i].to - W[i].from = c
                 /\ LET last == W[Len(W)].to - W[Len(W)].from
                    IN /\ 0 < last /\ last <= c
                       /\ Len(W) # 4 => last = c
                       /\ Len(W) = 4 => last = (t - f) % 3
           /\ t - f < 3 => \A i \in DOMAIN W : W[i].from = f /\ W[i].to = f

\* A cycle whose window is not a multiple of 3 has left its loop: 4
\* sub-windows.
C6_Witness ==
    /\ z_pc = "save"
    /\ Len(SubWindows) = 4
    /\ (to_timestamp - z_requests[1].from) % 3 # 0
    /\ SubWindows[4].to = to_timestamp
    /\ SubWindows[4].to - SubWindows[4].from < SubWindows[1].to - SubWindows[1].from

(***************************************************************************)
(* C7: the requests of a sub-window have the offsets 0, 5000, 10000 in     *)
(* that order; a page is requested after another of the sub-window only    *)
(* when that one held exactly 5000 entries; the sub-window is left after   *)
(* the first page of fewer than 5000 entries and after the request of      *)
(* offset 10000; so every offset is below 15000 and no sub-window has more *)
(* than 3 requests.                                                        *)
(***************************************************************************)
C7_OffsetCeiling ==
    LET R == z_requests IN
    /\ \A i \in DOMAIN R :
          /\ R[i].offset \in {0, 5000, 10000}
          /\ R[i].offset < 15000
          /\ R[i].got <= 5000
    /\ \A i \in DOMAIN R :
          R[i].offset > 0 =>
              /\ i > 1
              /\ R[i - 1].from = R[i].from /\ R[i - 1].to = R[i].to
              /\ R[i - 1].offset = R[i].offset - 5000
              /\ R[i - 1].got = 5000
    /\ \A i \in DOMAIN R :
          (R[i].got < 5000 \/ R[i].offset = 10000) =>
              IF i < Len(R) THEN R[i + 1].offset = 0 ELSE offset = 0
    /\ \A i \in DOMAIN R :
          (R[i].got = 5000 /\ R[i].offset < 10000) =>
              IF i < Len(R) THEN R[i + 1].offset = R[i].offset + 5000
              ELSE z_pc = "page" /\ offset = R[i].offset + 5000
    /\ \A i \in DOMAIN R : \A j \in DOMAIN R :
          (i < j /\ j - i >= 3) => \E k \in (i + 1)..j : R[k].offset = 0

\* A sub-window of three full pages, requested at 0, 5000, 10000, and left.
C7_Witness ==
    /\ Len(z_requests) >= 3
    /\ \E i \in DOMAIN z_requests :
          /\ i + 2 \in DOMAIN z_requests
          /\ z_requests[i].offset = 0 /\ z_requests[i].got = 5000
          /\ z_requests[i + 1].offset = 5000 /\ z_requests[i + 1].got = 5000
          /\ z_requests[i + 2].offset = 10000 /\ z_requests[i + 2].got = 5000
          /\ IF i + 2 < Len(z_requests) THEN z_requests[i + 3].offset = 0
             ELSE offset = 0 /\ z_pc \in {"page", "save"}

(***************************************************************************)
(* C11: after every chunk, each identity processed so far is once in       *)
(* user_details or once in users_not_enrolled and not in both, so the two  *)
(* lengths add up to the number of identities processed; an identity of    *)
(* the chunk is in users_not_enrolled exactly when no summary of the       *)
(* response carries its id.                                                *)
(***************************************************************************)
C11_ReconciliationComplete ==
    [][rec_i' # rec_i =>
        LET done == IF rec_i' < Len(identities) THEN rec_i' ELSE Len(identities)
            rows(id) == Cardinality({j \in DOMAIN user_details' :
                                        user_details'[j].id = id})
            outs(id) == Cardinality({j \in DOMAIN users_not_enrolled' :
                                        users_not_enrolled'[j].id = id})
        IN /\ Len(user_details') + Len(users_not_enrolled') = done
           /\ \A k \in 1..done :
                 rows(identities[k].id) + outs(identities[k].id) = 1
           /\ \A k \in (rec_i + 1)..done :
                 outs(identities[k].id) = 1 <=>
                    \A i \in DOMAIN user_summaries' :
                        user_summaries'[i].userId # identities[k].id]_vars

(***************************************************************************)
(* C12: when load_existing_ztna_data has returned, to_timestamp is now and *)
(* from_timestamp is the greatest timestamp of the entries of the files of *)
(* today, which the expiry step has left, when there is one, and 05:00 of  *)
(* today otherwise.                                                        *)
(***************************************************************************)
C12_WindowSelection ==
    [][(z_pc = "load" /\ z_pc' # "load") =>
        LET today == {b \in DOMAIN files : b \div 24 = clock \div (24 * MsPerHour)}
            stamps == UNION {{sg.ts : sg \in Range(files[b])} : b \in today}
        IN /\ to_timestamp' = now
           /\ stamps # {} =>
                 /\ from_timestamp' \in stamps
                 /\ \A ts \in stamps : ts <= from_timestamp'
           /\ stamps = {} =>
                 from_timestamp' = (now \div (24 * MsPerHour)) * 24 * MsPerHour
                                       + 5 * MsPerHour]_vars

(***************************************************************************)
(* C13: a cycle whose deletion of an old file or whose write of the hour   *)
(* file fails goes on: after the failed deletion it loads, after the       *)
(* failed write it returns existing_ztna_data + new_ztna_data.             *)
(***************************************************************************)
C13_IoFailureNotFatal ==
    [][/\ (z_pc = "clear" /\ failures' > failures) => z_pc' = "load"
       /\ (z_pc = "save" /\ failures' > failures) =>
             /\ z_pc' = "done"
             /\ ztna_data' = existing_ztna_data \o new_ztna_data]_vars

(***************************************************************************)
(* C14: a label with no delimiter " (" never ends the script with an       *)
(* error, and no row of the table of enrolled users or of the table of     *)
(* unenrolled users comes from an identity with such a label.              *)
(***************************************************************************)
C14_MalformedLabelExcluded ==
    /\ rec_error # "IndexError"
    /\ \A j \in DOMAIN df :
          \E i \in DOMAIN identities[df[j].id].label :
              identities[df[j].id].label[i] = TOpen
    /\ \A j \in DOMAIN df_no_enrollment :
          \E i \in DOMAIN identities[df_no_enrollment[j].id].label :
              identities[df_no_enrollment[j].id].label[i] = TOpen

(***************************************************************************)
(* C15: a walk of fetch_all_private_resources on a server whose responses  *)
(* carry no total returns the names of all the resources the server holds. *)
(***************************************************************************)
C15_WalkWithoutTotal ==
    (res_pc = "returned" /\ ~ res_total_field) =>
        res_result = 0 .. (res_catalog - 1)

\* A call of the cached function begins in this step.
Called == c_calls' # c_calls

\* The step hands back the value stored under e and leaves make_request alone.
ServedFrom(e) ==
    /\ c_pc' = "served"
    /\ c_result' = cache[e].value
    /\ UNCHANGED fetchVars

\* The step starts the body of make_request, whose first step is a GET.
GoesToNetwork ==
    /\ c_pc' = "running"
    /\ c_key'.max_retries > 0 => (mr_pc' = "attempt" /\ gets' = 0)

(***************************************************************************)
(* C16: response cache.  After a make_request that returned for a request  *)
(* identity (url, params), every call with the same url and params made    *)
(* less than an hour after the entry was written is served the stored      *)
(* response without a GET; a call made when the hour has elapsed goes to   *)
(* the network again; a call that raised leaves no entry behind.           *)
(***************************************************************************)
C16_ResponseCache ==
    [][/\ Called =>
            \A e \in DOMAIN cache :
                (/\ cache[e].value.kind = "response"
                 /\ e.url = c_key'.url
                 /\ e.params = c_key'.params) =>
                    IF c_time - cache[e].at < ttl
                      THEN ServedFrom(e)
                      ELSE e = c_key' => GoesToNetwork
       /\ (c_pc = "running" /\ c_pc' = "raised") =>
            /\ cache' = cache
            /\ c_key \in DOMAIN cache => c_time - cache[c_key].at >= ttl
      ]_vars

(***************************************************************************)
(* C16 (amended): the same, for a request identity made of all the         *)
(* arguments of the call (url, headers, params, max_retries, timeout,      *)
(* delay).                                                                 *)
(***************************************************************************)
C16_ResponseCacheAllArguments ==
    [][/\ (Called /\ c_key' \in DOMAIN cache) =>
            IF c_time - cache[c_key'].at < ttl
              THEN ServedFrom(c_key')
              ELSE GoesToNetwork
       /\ (Called /\ c_key' \notin DOMAIN cache) => GoesToNetwork
       /\ (c_pc = "running" /\ c_pc' = "raised") =>
            /\ cache' = cache
            /\ c_key \in DOMAIN cache => c_time - cache[c_key].at >= ttl
      ]_vars

\* A response is served from the cache some time after it was stored, and
\* an entry of the cache has expired.
C16_Witness ==
    /\ c_pc = "served"
    /\ c_result.kind = "response"
    /\ c_time > cache[c_key].at
    /\ \E e \in DOMAIN cache : c_time - cache[e].at >= ttl

(***************************************************************************)
(* C17: identifier attribution.  The script never ends on a Correo that    *)
(* holds no code (such identities are left out of the map), and each VPN   *)
(* connection is attributed to the Usuario of an enrolled identity whose   *)
(* Correo holds the first code of the device name, or to "Unknown" when    *)
(* the device name holds no code or no enrolled identity has that code.    *)
(***************************************************************************)
C17_IdentifierAttribution ==
    /\ rec_error # "AttributeError"
    /\ rec_pc = "done" =>
          \A j \in DOMAIN vpn_data :
              LET c == FirstCode(vpn_data[j].deviceName)
                  owners == {r \in Range(df) :
                                c # NoCode /\ FirstCode(r.Correo) = c}
              IN  IF owners = {}
                    THEN vpn_data[j].Usuario = Unknown
                    ELSE \E r \in owners : vpn_data[j].Usuario = r.Usuario

\* A request of the cycle is answered and the loop of lines 201-221 is left:
\* line 224 moves from_timestamp.
WindowLeft ==
    /\ z_pc = "page"
    /\ z_pc' \in {"page", "save"}
    /\ Len(z_requests') > Len(z_requests)
    /\ failures' = failures
    /\ offset' = 0

(***************************************************************************)
(* C18: termination of a ZTNA cycle.  With a server that answers every     *)
(* request, each iteration of the sub-window loop ends with from_timestamp *)
(* strictly greater than it began, whatever to - from is; and a cycle      *)
(* whose from is not below now goes to its end without a request.          *)
(***************************************************************************)
C18_CycleTerminates ==
    [][/\ WindowLeft => from_timestamp' > from_timestamp
       /\ (z_pc = "load" /\ z_pc' # "load" /\ from_timestamp' >= to_timestamp')
             => (z_pc' = "save" /\ z_requests' = <<>>)
      ]_vars

\* line 222: make_request raised an HTTPError and the cycle goes on.
HttpErrorCaught == z_pc = "page" /\ failures' > failures /\ z_pc' # "raised"

(***************************************************************************)
(* C19: an HTTP error while paging a sub-window abandons that sub-window   *)
(* only.  The step keeps the entries collected so far and moves on to the  *)
(* sub-window that begins where the abandoned one ended (when that is      *)
(* before `to`, the request of that sub-window is next); a cycle that had  *)
(* such an error and ends has requested the sub-windows up to `to`, writes *)
(* the entries it collected to the snapshot of the hour and returns the    *)
(* existing entries followed by the collected ones.                        *)
(***************************************************************************)
C19_HttpErrorAbandonsSubWindow ==
    [][/\ HttpErrorCaught =>
            /\ new_ztna_data' = new_ztna_data
            /\ existing_ztna_data' = existing_ztna_data
            /\ from_timestamp' = chunk_end_time
            /\ offset' = 0
            /\ chunk_end_time < to_timestamp =>
                  (/\ z_pc' = "page"
                   /\ chunk_end_time' =
                         Min(chunk_end_time + time_chunk_size, to_timestamp))
       /\ (Returns /\ \E i \in DOMAIN z_requests : z_requests[i].got = -1) =>
            /\ z_requests[Len(z_requests)].to = to_timestamp
            /\ ztna_data' = existing_ztna_data \o new_ztna_data
            /\ new_ztna_data # <<>> =>
                  (/\ Bucket(clock) \in DOMAIN files'
                   /\ files'[Bucket(clock)] = new_ztna_data)
      ]_vars

\* A cycle is about to return: it collected entries, then a request got an
\* HTTP error, then a later sub-window gave more entries.
C19_Witness ==
    /\ z_pc = "save"
    /\ \E h, i, j \in DOMAIN z_requests :
          /\ h < i /\ i < j
          /\ z_requests[h].got > 0
          /\ z_requests[i].got = -1
          /\ z_requests[j].got > 0
          /\ z_requests[j].from >= z_requests[i].to

(***************************************************************************)
(* C20: a cycle that fetched no new entry writes no snapshot.  Its return  *)
(* leaves every file as it is and hands back the entries it loaded, which  *)
(* are the entries of today's files; and no step of a cycle other than the *)
(* save of new entries changes a file of the current day.                  *)
(***************************************************************************)
C20_NoNewEntryNoWrite ==
    [][/\ (Returns /\ new_ztna_data = <<>>) =>
            /\ files' = files
            /\ ztna_data' = existing_ztna_data
            /\ Day(clock) = Day(now) =>
                  ztna_data' = ConcatFiles(files', TodayFiles(files', clock))
       /\ (z_pc = "save" => new_ztna_data = <<>>) =>
            \A b \in TodayFiles(files, clock) :
                b \in DOMAIN files' /\ files'[b] = files[b]
      ]_vars

\* A cycle that found entries in the file of the current hour and asked the
\* server is about to return with nothing new.
C20_Witness ==
    /\ z_pc = "save"
    /\ new_ztna_data = <<>>
    /\ existing_ztna_data # <<>>
    /\ z_requests # <<>>
    /\ Bucket(clock) \in DOMAIN files
    /\ files[Bucket(clock)] # <<>>

====
